---- MODULE Spec2Model ----
(***************************************************************************)
(* ZipDatastore (zipcar.go): a content-addressed key/value store kept in a *)
(* ZIP archive.  The store overlays an in-memory cache on a name index     *)
(* built at open time and rewrites the whole archive at Close() when it    *)
(* was modified.                                                           *)
(*                                                                         *)
(* Scope of the model: one path on the filesystem, one store object at a   *)
(* time, calls made one after the other (the code has no concurrency).     *)
(* Every exported method is one action.  The archive/zip, os and cid       *)
(* libraries are modelled by their contracts: a file is absent, empty,     *)
(* not a ZIP, or a ZIP holding a map from entry name to payload; each      *)
(* library call that can return an error may do so (an injected fault).    *)
(* A store is not used again after Close() has returned.                   *)
(***************************************************************************)
EXTENDS Integers, Sequences, FiniteSets, TLC

----------------------------------------------------------------------------
(* Bounds of the exploration *)

\* number of NewDatastore() calls in a behaviour
MaxSessions == 2
\* number of calls in a behaviour that change the cache, the index or the
\* modified flag (calls that change none of them are not limited)
MaxOps == 2
\* number of injected library failures in a behaviour
MaxFaults == 1
\* the multihashes keys are made of
Hashes == {1, 2}

----------------------------------------------------------------------------
(* Values *)

\* a Go []byte: the nil slice, or a (possibly empty) sequence of bytes
NIL == [nil |-> TRUE, bytes |-> <<>>]
Slice(s) == [nil |-> FALSE, bytes |-> s]
len(v) == Len(v.bytes)

\* payloads of the archives found on disk, and the values callers hand to
\* Put(): the nil slice, the empty slice and a slice of one byte
Payloads == {<<>>, <<7>>, <<8, 7>>}
PutValues == {NIL, Slice(<<>>), Slice(<<9>>)}

\* what ioutil.ReadAll hands back together with an error: the bytes read so far
Prefixes(s) == {SubSeq(s, 1, i) : i \in 0..Len(s)}

\* a ds.Key: either the key of a CID (version 0 or 1 over a multihash), or a
\* key whose bytes are no CID.  The keys callers use: both versions over the
\* first multihash, version 1 over the others.
CidKeys ==
    {k \in [kind : {"cid"}, version : {0, 1}, hash : Hashes] :
        k.version = 0 => k.hash = 1}
JunkKey == [kind |-> "junk", version |-> 0, hash |-> 0]
NoKey == [kind |-> "none", version |-> 0, hash |-> 0]
Keys == CidKeys \cup {JunkKey}

\* dshelp.DsKeyToCid: the CID of a key, or an error
DsKeyToCid(key) ==
    IF key.kind = "cid" /\ key.version \in {0, 1}
    THEN [err |-> "nil", version |-> key.version, hash |-> key.hash]
    ELSE [err |-> "InvalidKey", version |-> 0, hash |-> 0]

\* a text that is the base58btc multihash for every version
StringOfBaseMultihash(c, base) ==
    [err |-> "nil", base |-> "base58btc", version |-> 0, hash |-> c.hash]

\* cid.StringOfBase: the multibase text of a CID.  A version 0 CID is the
\* bare base58btc multihash; a version 1 CID is the base32 text of
\* <version><codec><multihash>.
StringOfBase(c, base) ==
    IF c.version = 0
    THEN IF base = "base58btc"
         THEN [err |-> "nil", base |-> "base58btc", version |-> 0, hash |-> c.hash]
         ELSE [err |-> "InvalidKey", base |-> "", version |-> 0, hash |-> 0]
    ELSE [err |-> "nil", base |-> base, version |-> c.version, hash |-> c.hash]

NoName == [base |-> "", version |-> 0, hash |-> 0]

\* dsKeyToCidString without the `if err != nil` after DsKeyToCid
dsKeyToCidStringUnchecked(key) ==
    LET c == DsKeyToCid(key)
        s == IF c.version = 0 THEN StringOfBase(c, "base58btc")
             ELSE StringOfBase(c, "base32") IN
    [err |-> "nil", name |-> [base |-> s.base, version |-> s.version, hash |-> s.hash]]

\* dsKeyToCidString: the entry name of a key, or an error
dsKeyToCidString(key) ==
    LET c == DsKeyToCid(key) IN
    IF c.err # "nil" THEN [err |-> c.err, name |-> NoName]
    ELSE LET s == IF c.version = 0 THEN StringOfBase(c, "base58btc")
                  ELSE StringOfBase(c, "base32") IN
         IF s.err # "nil" THEN [err |-> s.err, name |-> NoName]
         ELSE [err |-> "nil",
               name |-> [base |-> s.base, version |-> s.version, hash |-> s.hash]]

\* the entry names keys can have
Names == {dsKeyToCidString(k).name : k \in CidKeys}

----------------------------------------------------------------------------
(* Go maps *)

EmptyMap == [n \in {} |-> NIL]
MapSet(m, k, v) == [x \in (DOMAIN m) \cup {k} |-> IF x = k THEN v ELSE m[x]]

\* a *zip.File of the reader's entry table, or the nil pointer
NilFile == [nil |-> TRUE, name |-> NoName, size |-> 0]
ZipFile(n, sz) == [nil |-> FALSE, name |-> n, size |-> sz]

\* reading a map gives the zero value for a missing key
cacheAt(c, n) == IF n \in DOMAIN c THEN c[n] ELSE NIL
indexAt(i, n) == IF n \in DOMAIN i THEN i[n] ELSE NilFile

----------------------------------------------------------------------------
(* The file at the store's path *)

NoFile == [kind |-> "none", entries |-> EmptyMap]
EmptyFile == [kind |-> "empty", entries |-> EmptyMap]
JunkFile == [kind |-> "junk", entries |-> EmptyMap]
ZipOf(e) == [kind |-> "zip", entries |-> e]

\* archives that may lie at the path before the first call
\* (written by earlier stores): the archive without entries, one holding two
\* records and one holding three, one of them empty
NameOf(version, hash) ==
    dsKeyToCidString([kind |-> "cid", version |-> version, hash |-> hash]).name
InitPayload(n) ==
    IF n = NameOf(0, 1) THEN Slice(<<7>>)
    ELSE IF n = NameOf(1, 1) THEN Slice(<<8, 7>>) ELSE Slice(<<>>)
InitArchives ==
    {ZipOf([n \in S |-> InitPayload(n)]) :
        S \in {{}, {NameOf(0, 1), NameOf(1, 1)}, Names}}

VARIABLES
    fs,        \* the file at the path
    store,     \* "none": no store object; "open": NewDatastore returned one;
               \* "closed": Close() has returned
    index,     \* zipDs.index
    cache,     \* zipDs.cache
    modified,  \* zipDs.modified
    handle,    \* zipDs.file: "none", "open", "released", "leaked" (open and
               \* without owner) or "rewrite" (the file Close() reopened)
    ret,       \* what the last call returned
    nsess, nops, nfaults,
    pre,       \* the store and the file as they were when Close() was called,
               \* kept until the first call on the next store
    puts,      \* records stored by Put() on this store and not deleted since
    readonly,  \* no Put() or Delete() has been called on this store
    truncated, \* Close() has opened the file with O_TRUNC
    closing    \* the Close() that is under way when its statements are taken
               \* one at a time: where it stands, its result variable err,
               \* the entries handed to the zip writer, and whether
               \* writer.Close() has run

vars == <<fs, store, index, cache, modified, handle, ret, nsess, nops, nfaults,
          pre, puts, readonly, truncated, closing>>

Ret(op, key, err, value, ok, n) ==
    [op |-> op, key |-> key, err |-> err, value |-> value, ok |-> ok, n |-> n]

NoPre == [valid |-> FALSE, fs |-> NoFile, index |-> EmptyMap, cache |-> EmptyMap,
          modified |-> FALSE, puts |-> EmptyMap, readonly |-> FALSE,
          err |-> "nil", faulty |-> FALSE]

\* no Close() is under way
NotClosing == [pc |-> "idle", err |-> "nil", written |-> {}, finalized |-> FALSE]

TypeOK ==
    /\ fs.kind \in {"none", "empty", "junk", "zip"}
    /\ store \in {"none", "open", "closing", "closed"}
    /\ closing.pc \in {"idle", "load", "release", "reopen", "write", "finalize", "fileclose"}
    /\ closing.written \subseteq Names
    /\ DOMAIN index \subseteq Names
    /\ DOMAIN cache \subseteq Names
    /\ modified \in BOOLEAN
    /\ handle \in {"none", "open", "released", "leaked", "rewrite"}
    /\ nsess \in 0..MaxSessions /\ nops \in 0..MaxOps /\ nfaults \in 0..MaxFaults

Init ==
    /\ fs \in {NoFile, JunkFile} \cup InitArchives
    /\ store = "none"
    /\ index = EmptyMap
    /\ cache = EmptyMap
    /\ modified = FALSE
    /\ handle = "none"
    /\ ret = Ret("init", NoKey, "nil", NIL, FALSE, 0)
    /\ nsess = 0 /\ nops = 0 /\ nfaults = 0
    /\ pre = NoPre
    /\ puts = EmptyMap
    /\ readonly = TRUE
    /\ truncated = FALSE
    /\ closing = NotClosing

\* an injected library failure is counted; "none" is the run without failure
Fault(f) ==
    IF f = "none" THEN UNCHANGED nfaults
    ELSE nfaults < MaxFaults /\ nfaults' = nfaults + 1

----------------------------------------------------------------------------
(* NewDatastore(path) *)

\* an entry table that is never copied into the index
ReaderFilesNone(file) == EmptyMap

\* the entry table zip.NewReader builds: one *zip.File per entry, with the
\* uncompressed size its header records
ReaderFiles(file) ==
    [n \in DOMAIN file.entries |-> ZipFile(n, len(file.entries[n]))]

\* NewDatastore() that opens the file with O_TRUNC
NewDatastoreTruncating(fault) ==
    /\ store \in {"none", "closed"}
    /\ nsess < MaxSessions
    /\ nsess' = nsess + 1
    /\ UNCHANGED nops
    /\ Fault(fault)
    /\ modified' = FALSE
    /\ cache' = EmptyMap
    /\ puts' = EmptyMap
    /\ readonly' = TRUE
    /\ truncated' = FALSE
    /\ UNCHANGED <<pre, closing>>
    /\ LET exists == fs.kind # "none" IN
       IF fault \in {"stat", "openfile"}
       THEN /\ store' = "none" /\ handle' = "none" /\ index' = EmptyMap
            /\ UNCHANGED fs
            /\ ret' = Ret("open", NoKey, "IOError", NIL, FALSE, 0)
       ELSE IF exists
       THEN /\ fault \in {"none", "reader"}
            /\ store' = "none" /\ handle' = "leaked" /\ index' = EmptyMap
            /\ fs' = EmptyFile
            /\ ret' = Ret("open", NoKey,
                          IF fault = "none" THEN "FormatError" ELSE "IOError",
                          NIL, FALSE, 0)
       ELSE /\ fault = "none"
            /\ store' = "open" /\ handle' = "open"
            /\ fs' = EmptyFile
            /\ index' = EmptyMap
            /\ ret' = Ret("open", NoKey, "nil", NIL, FALSE, 0)

NewDatastore(fault) ==
    /\ store \in {"none", "closed"}
    /\ nsess < MaxSessions
    /\ nsess' = nsess + 1
    /\ UNCHANGED nops
    /\ Fault(fault)
    /\ modified' = FALSE
    /\ cache' = EmptyMap
    /\ puts' = EmptyMap
    /\ readonly' = TRUE
    /\ truncated' = FALSE
    /\ UNCHANGED <<pre, closing>>
    /\ LET exists == fs.kind # "none" IN
       IF fault \in {"stat", "openfile"}
       THEN \* os.Stat or os.OpenFile failed: no store, no file created
            /\ store' = "none" /\ handle' = "none" /\ index' = EmptyMap
            /\ UNCHANGED fs
            /\ ret' = Ret("open", NoKey, "IOError", NIL, FALSE, 0)
       ELSE IF exists /\ (fs.kind # "zip" \/ fault = "reader")
       THEN \* zip.NewReader failed: the error is returned, the file stays open
            /\ store' = "none" /\ handle' = "leaked" /\ index' = EmptyMap
            /\ UNCHANGED fs
            /\ ret' = Ret("open", NoKey,
                          IF fs.kind # "zip" THEN "FormatError" ELSE "IOError",
                          NIL, FALSE, 0)
       ELSE /\ fault = "none"
            /\ store' = "open" /\ handle' = "open"
            /\ fs' = IF exists THEN fs ELSE EmptyFile
            /\ index' = IF exists THEN ReaderFiles(fs) ELSE EmptyMap
            /\ ret' = Ret("open", NoKey, "nil", NIL, FALSE, 0)

----------------------------------------------------------------------------
(* The calls on an open store *)

\* the part every call on an open store shares
Call ==
    /\ store = "open"
    /\ pre' = NoPre
    /\ UNCHANGED <<fs, store, handle, nsess, truncated, closing>>

\* counts the call when it has changed the store (the last conjunct of a call)
Counted ==
    IF <<cache', index', modified'>> = <<cache, index, modified>>
    THEN UNCHANGED nops
    ELSE nops < MaxOps /\ nops' = nops + 1

\* has() that looks at the index alone
hasIndexOnly(c, i, n) == ~indexAt(i, n).nil

has(c, i, n) == ~cacheAt(c, n).nil \/ ~indexAt(i, n).nil

\* Put() that clears the modified flag when it finds the name
PutDupeClean(key, value) ==
    /\ Call
    /\ readonly' = FALSE
    /\ UNCHANGED <<index, nfaults>>
    /\ LET cidStr == dsKeyToCidString(key) IN
       IF cidStr.err # "nil"
       THEN /\ ret' = Ret("put", key, cidStr.err, value, FALSE, 0)
            /\ UNCHANGED <<cache, modified, puts>>
       ELSE IF has(cache, index, cidStr.name)
       THEN /\ ret' = Ret("put", key, "nil", value, FALSE, 0)
            /\ modified' = FALSE
            /\ UNCHANGED <<cache, puts>>
       ELSE /\ modified' = TRUE
            /\ cache' = MapSet(cache, cidStr.name, value)
            /\ puts' = MapSet(puts, cidStr.name, value)
            /\ ret' = Ret("put", key, "nil", value, FALSE, 0)
    /\ Counted

\* the returned record of Put keeps the value the caller passed
Put(key, value) ==
    /\ Call
    /\ readonly' = FALSE
    /\ UNCHANGED <<index, nfaults>>
    /\ LET cidStr == dsKeyToCidString(key) IN
       IF cidStr.err # "nil"
       THEN /\ ret' = Ret("put", key, cidStr.err, value, FALSE, 0)
            /\ UNCHANGED <<cache, modified, puts>>
       ELSE IF has(cache, index, cidStr.name)
       THEN \* dupe, assume CID is correct and ignore
            /\ ret' = Ret("put", key, "nil", value, FALSE, 0)
            /\ UNCHANGED <<cache, modified, puts>>
       ELSE /\ modified' = TRUE
            /\ cache' = MapSet(cache, cidStr.name, value)
            /\ puts' = MapSet(puts, cidStr.name, value)
            /\ ret' = Ret("put", key, "nil", value, FALSE, 0)
    /\ Counted

\* f.Open() followed by ioutil.ReadAll: the payload of an entry of the file
\* the reader was built on
EntryPayload(file, f) == file.entries[f.name]

\* Get() that reads the entry and does not keep it
GetResultNoMemo(c, i, file, key, fault, part) ==
    LET cidStr == dsKeyToCidString(key) IN
    IF cidStr.err # "nil"
    THEN [err |-> cidStr.err, value |-> NIL, cache |-> c]
    ELSE IF ~cacheAt(c, cidStr.name).nil
    THEN [err |-> "nil", value |-> cacheAt(c, cidStr.name), cache |-> c]
    ELSE LET f == indexAt(i, cidStr.name) IN
         IF f.nil
         THEN [err |-> "NotFound", value |-> NIL, cache |-> c]
         ELSE IF fault = "open"
         THEN [err |-> "IOError", value |-> NIL, cache |-> c]
         ELSE IF fault = "read"
         THEN [err |-> "IOError", value |-> NIL,
               cache |-> MapSet(c, cidStr.name, Slice(part))]
         ELSE [err |-> "nil", value |-> Slice(EntryPayload(file, f).bytes), cache |-> c]

\* Get() that remembers a miss as a nil cache entry
GetResultCachingMiss(c, i, file, key, fault, part) ==
    LET cidStr == dsKeyToCidString(key) IN
    IF cidStr.err # "nil"
    THEN [err |-> cidStr.err, value |-> NIL, cache |-> c]
    ELSE IF ~cacheAt(c, cidStr.name).nil
    THEN [err |-> "nil", value |-> cacheAt(c, cidStr.name), cache |-> c]
    ELSE LET f == indexAt(i, cidStr.name) IN
         IF f.nil
         THEN [err |-> "NotFound", value |-> NIL, cache |-> MapSet(c, cidStr.name, NIL)]
         ELSE IF fault = "open"
         THEN [err |-> "IOError", value |-> NIL, cache |-> c]
         ELSE IF fault = "read"
         THEN [err |-> "IOError", value |-> NIL,
               cache |-> MapSet(c, cidStr.name, Slice(part))]
         ELSE [err |-> "nil", value |-> Slice(EntryPayload(file, f).bytes),
               cache |-> MapSet(c, cidStr.name, Slice(EntryPayload(file, f).bytes))]

\* what Get(key) returns and the cache it leaves, for each way the read of
\* the entry can go: fault "none", "open" (f.Open fails) or "read" (ReadAll
\* fails after the bytes `part`)
GetResult(c, i, file, key, fault, part) ==
    LET cidStr == dsKeyToCidString(key) IN
    IF cidStr.err # "nil"
    THEN [err |-> cidStr.err, value |-> NIL, cache |-> c]
    ELSE IF ~cacheAt(c, cidStr.name).nil
    THEN [err |-> "nil", value |-> cacheAt(c, cidStr.name), cache |-> c]
    ELSE LET f == indexAt(i, cidStr.name) IN
         IF f.nil
         THEN [err |-> "NotFound", value |-> NIL, cache |-> c]
         ELSE IF fault = "open"
         THEN [err |-> "IOError", value |-> NIL, cache |-> c]
         ELSE IF fault = "read"
         THEN [err |-> "IOError", value |-> NIL,
               cache |-> MapSet(c, cidStr.name, Slice(part))]
         ELSE [err |-> "nil", value |-> Slice(EntryPayload(file, f).bytes),
               cache |-> MapSet(c, cidStr.name, Slice(EntryPayload(file, f).bytes))]

\* whether Get(key) gets as far as reading the archive entry
ReadsEntry(c, i, key) ==
    LET cidStr == dsKeyToCidString(key) IN
    /\ cidStr.err = "nil"
    /\ cacheAt(c, cidStr.name).nil
    /\ ~indexAt(i, cidStr.name).nil

Get(key, fault, part) ==
    /\ Call
    /\ Fault(fault)
    /\ fault \in {"none", "open", "read"}
    /\ fault # "none" => ReadsEntry(cache, index, key)
    /\ IF fault = "read"
       THEN part \in Prefixes(EntryPayload(fs, indexAt(index, dsKeyToCidString(key).name)).bytes)
       ELSE part = <<>>
    /\ LET r == GetResult(cache, index, fs, key, fault, part) IN
       /\ cache' = r.cache
       /\ ret' = Ret("get", key, r.err, r.value, FALSE, 0)
    /\ UNCHANGED <<index, modified, puts, readonly>>
    /\ Counted

HasResult(c, i, key) ==
    LET cidStr == dsKeyToCidString(key) IN
    IF cidStr.err # "nil"
    THEN [err |-> cidStr.err, ok |-> FALSE]
    ELSE [err |-> "nil", ok |-> has(c, i, cidStr.name)]

Has(key) ==
    /\ Call
    /\ LET r == HasResult(cache, index, key) IN
       ret' = Ret("has", key, r.err, NIL, r.ok, 0)
    /\ UNCHANGED <<index, cache, modified, puts, nfaults, readonly>>
    /\ Counted

\* a Go map without the key k
MapDrop(m, k) == [x \in (DOMAIN m) \ {k} |-> m[x]]

\* Delete() that leaves the index entry in place
DeleteCacheOnly(key) ==
    /\ Call
    /\ readonly' = FALSE
    /\ UNCHANGED <<modified, nfaults, index>>
    /\ LET cidStr == dsKeyToCidString(key) IN
       IF cidStr.err # "nil"
       THEN /\ ret' = Ret("delete", key, cidStr.err, NIL, FALSE, 0)
            /\ UNCHANGED <<cache, puts>>
       ELSE /\ cache' = MapSet(cache, cidStr.name, NIL)
            /\ puts' = MapDrop(puts, cidStr.name)
            /\ ret' = Ret("delete", key, "nil", NIL, FALSE, 0)
    /\ Counted

Delete(key) ==
    /\ Call
    /\ readonly' = FALSE
    /\ UNCHANGED <<modified, nfaults>>
    /\ LET cidStr == dsKeyToCidString(key) IN
       IF cidStr.err # "nil"
       THEN /\ ret' = Ret("delete", key, cidStr.err, NIL, FALSE, 0)
            /\ UNCHANGED <<cache, index, puts>>
       ELSE /\ cache' = MapSet(cache, cidStr.name, NIL)
            /\ index' = MapSet(index, cidStr.name, NilFile)
            /\ puts' = MapDrop(puts, cidStr.name)
            /\ ret' = Ret("delete", key, "nil", NIL, FALSE, 0)
    /\ Counted

\* GetSize() that asks the index before the cache
GetSizeIndexFirst(c, i, key) ==
    LET cidStr == dsKeyToCidString(key) IN
    IF cidStr.err # "nil"
    THEN [err |-> cidStr.err, n |-> 0]
    ELSE LET f == indexAt(i, cidStr.name) IN
         IF ~f.nil
         THEN [err |-> "nil", n |-> f.size]
         ELSE IF ~cacheAt(c, cidStr.name).nil
         THEN [err |-> "nil", n |-> len(cacheAt(c, cidStr.name))]
         ELSE [err |-> "NotFound", n |-> 0]

GetSizeResult(c, i, key) ==
    LET cidStr == dsKeyToCidString(key) IN
    IF cidStr.err # "nil"
    THEN [err |-> cidStr.err, n |-> 0]
    ELSE IF ~cacheAt(c, cidStr.name).nil
    THEN [err |-> "nil", n |-> len(cacheAt(c, cidStr.name))]
    ELSE LET f == indexAt(i, cidStr.name) IN
         IF f.nil
         THEN [err |-> "NotFound", n |-> 0]
         ELSE [err |-> "nil", n |-> f.size]

\* GetSize() that reads the entry into the cache to measure it
GetSizeLoading(key) ==
    /\ Call
    /\ LET r == GetSizeResult(cache, index, key) IN
       ret' = Ret("size", key, r.err, NIL, FALSE, r.n)
    /\ cache' = GetResult(cache, index, fs, key, "none", <<>>).cache
    /\ UNCHANGED <<index, modified, puts, nfaults, readonly>>
    /\ Counted

GetSize(key) ==
    /\ Call
    /\ LET r == GetSizeResult(cache, index, key) IN
       ret' = Ret("size", key, r.err, NIL, FALSE, r.n)
    /\ UNCHANGED <<index, cache, modified, puts, nfaults, readonly>>
    /\ Counted

\* Query() that returns an empty result set
QueryNoResults ==
    /\ store \in {"open", "closed"}
    /\ IF store = "open" THEN Call
       ELSE UNCHANGED <<fs, store, handle, nsess, truncated, pre, closing>>
    /\ ret' = Ret("query", NoKey, "nil", NIL, FALSE, 0)
    /\ UNCHANGED <<index, cache, modified, puts, nfaults, readonly>>
    /\ Counted

\* Query() reads no field of the store: it answers on a closed store as on an
\* open one
Query ==
    /\ store \in {"open", "closed"}
    /\ IF store = "open" THEN Call
       ELSE UNCHANGED <<fs, store, handle, nsess, truncated, pre, closing>>
    /\ ret' = Ret("query", NoKey, "Unimplemented", NIL, FALSE, 0)
    /\ UNCHANGED <<index, cache, modified, puts, nfaults, readonly>>
    /\ Counted

----------------------------------------------------------------------------
(* Close() *)

\* the index entries Close() has to read: live and not yet in the cache
ToLoad(c, i) == {n \in DOMAIN i : ~i[n].nil /\ cacheAt(c, n).nil}

\* a Close() that reads no entry before the rewrite
LoadedNothing(c, i, file, S) == c

\* the cache once the payloads of the entries in S have been read into it
Loaded(c, i, file, S) ==
    [n \in (DOMAIN c) \cup S |->
        IF n \in S THEN Slice(EntryPayload(file, i[n]).bytes) ELSE c[n]]

\* the entries the rewrite loop creates: one per cache entry that is not nil
Live(c) == [n \in {m \in DOMAIN c : ~c[m].nil} |-> c[n]]

\* the archive the rewrite leaves when every write succeeds
Rewritten(c) == ZipOf(Live(c))

CloseFaults ==
    {"none", "entryopen", "read", "fileclose", "reopen", "write", "finalize", "fileclose2"}

\* the test without `|| !zipDs.modified`
SkipRewriteOnError(err, m) == err # "nil"

\* `if err != nil || !zipDs.modified`: Close() returns after releasing the
\* file, without rewriting it
SkipRewrite(err, m) == err # "nil" \/ ~m

\* fault: the library call that fails, if any.  n: the entry whose f.Open or
\* ReadAll fails.  S: the entries read before n (the map is ranged over in
\* no fixed order).  part: the bytes ReadAll returned with its error.
\* left: what a failed rewrite leaves at the path ("empty": nothing reached
\* the file, "junk": bytes that are no archive, "zip": the whole archive).
Close(fault, n, S, part, left) ==
    /\ store = "open"
    /\ store' = "closed"
    /\ Fault(fault)
    /\ UNCHANGED <<index, modified, puts, readonly, nsess, nops, closing>>
    /\ fault \in {"entryopen", "read"} => modified /\ n \in ToLoad(cache, index)
    /\ fault \notin {"entryopen", "read"} => n = NoName
    /\ IF fault = "entryopen" THEN S \subseteq ToLoad(cache, index) \ {n} ELSE S = {}
    /\ IF fault = "read"
       THEN part \in Prefixes(EntryPayload(fs, index[n]).bytes)
       ELSE part = <<>>
    /\ left \in IF fault \in {"write", "finalize"} THEN {"empty", "junk"}
                ELSE IF fault = "fileclose2" THEN {"zip", "junk"} ELSE {"none"}
    /\ IF fault = "entryopen"
       THEN \* f.Open() failed: `return err`, nothing after the loop runs
            /\ cache' = Loaded(cache, index, fs, S)
            /\ UNCHANGED <<fs, handle>>
            /\ truncated' = FALSE
            /\ ret' = Ret("close", NoKey, "IOError", NIL, FALSE, 0)
       ELSE LET \* the error of ReadAll is dropped: its bytes are cached
                mat == IF ~modified THEN cache
                       ELSE IF fault = "read"
                       THEN MapSet(Loaded(cache, index, fs, ToLoad(cache, index) \ {n}),
                                   n, Slice(part))
                       ELSE Loaded(cache, index, fs, ToLoad(cache, index))
                \* err = zipDs.file.Close()
                err == IF fault = "fileclose" THEN "IOError" ELSE "nil"
            IN
            /\ cache' = mat
            /\ handle' = "released"
            /\ IF SkipRewrite(err, modified)
               THEN /\ fault \in {"none", "fileclose"}
                    /\ UNCHANGED fs
                    /\ truncated' = FALSE
                    /\ ret' = Ret("close", NoKey, err, NIL, FALSE, 0)
               ELSE IF fault = "reopen"
               THEN \* os.OpenFile(O_TRUNC) failed
                    /\ UNCHANGED fs
                    /\ truncated' = FALSE
                    /\ ret' = Ret("close", NoKey, "IOError", NIL, FALSE, 0)
               ELSE /\ truncated' = TRUE
                    /\ IF fault \in {"write", "finalize"}
                       THEN \* CreateHeader, Write or writer.Close() failed on
                            \* the truncated file: no central directory
                            /\ fault = "write" => DOMAIN Live(mat) # {}
                            /\ fs' = IF left = "empty" THEN EmptyFile ELSE JunkFile
                            /\ ret' = Ret("close", NoKey, "IOError", NIL, FALSE, 0)
                       ELSE IF fault = "fileclose2"
                       THEN \* the deferred zipDs.file.Close() failed after the
                            \* archive was finalized
                            /\ fs' = IF left = "zip" THEN Rewritten(mat) ELSE JunkFile
                            /\ ret' = Ret("close", NoKey, "IOError", NIL, FALSE, 0)
                       ELSE /\ fs' = Rewritten(mat)
                            /\ ret' = Ret("close", NoKey, "nil", NIL, FALSE, 0)
    /\ pre' = [valid |-> TRUE, fs |-> fs, index |-> index, cache |-> cache,
               modified |-> modified, puts |-> puts, readonly |-> readonly,
               err |-> ret'.err, faulty |-> (fault # "none")]

----------------------------------------------------------------------------

AllParts == UNION {Prefixes(s) : s \in Payloads}

Next ==
    \/ \E fault \in {"none", "stat", "openfile", "reader"} : NewDatastore(fault)
    \/ \E key \in Keys, value \in PutValues : Put(key, value)
    \/ \E key \in Keys, fault \in {"none", "open", "read"}, part \in AllParts :
          Get(key, fault, part)
    \/ \E key \in Keys : Has(key)
    \/ \E key \in Keys : Delete(key)
    \/ \E key \in Keys : GetSize(key)
    \/ Query
    \/ \E fault \in CloseFaults \ {"entryopen", "read"},
          left \in {"none", "empty", "junk", "zip"} :
          Close(fault, NoName, {}, <<>>, left)
    \/ \E n \in Names, S \in SUBSET Names : Close("entryopen", n, S, <<>>, "none")
    \/ \E n \in Names, part \in AllParts : Close("read", n, {}, part, "none")

Spec == Init /\ [][Next]_vars

----------------------------------------------------------------------------
(* Close(), one statement at a time *)

\* `return`: Close() hands back e
CloseReturn(e) ==
    /\ store' = "closed"
    /\ closing' = NotClosing
    /\ ret' = Ret("close", NoKey, e, NIL, FALSE, 0)

\* what a write that went wrong, or that was not flushed, leaves of the
\* truncated file: no bytes, or bytes that are no archive
Unfinished(file, left) ==
    IF left = "junk" \/ file.kind = "junk" THEN JunkFile ELSE EmptyFile

\* the call and `if zipDs.modified`
CloseEnter ==
    /\ store = "open"
    /\ store' = "closing"
    /\ closing' = [NotClosing EXCEPT
                      !.pc = IF modified /\ ToLoad(cache, index) # {}
                             THEN "load" ELSE "release"]
    /\ UNCHANGED <<fs, index, cache, modified, handle, ret, nsess, nops, nfaults,
                   pre, puts, readonly, truncated>>

\* a Close() that does not wait for the entries to be read
CloseReleaseAtOnce(fault) ==
    /\ store = "closing" /\ closing.pc \in {"load", "release"}
    /\ fault \in {"none", "fileclose"}
    /\ Fault(fault)
    /\ handle' = "released"
    /\ LET err == IF fault = "fileclose" THEN "IOError" ELSE "nil" IN
       IF SkipRewrite(err, modified)
       THEN CloseReturn(err)
       ELSE /\ closing' = [closing EXCEPT !.pc = "reopen"]
            /\ UNCHANGED <<store, ret>>
    /\ UNCHANGED <<fs, index, cache, modified, nsess, nops, pre, puts, readonly,
                   truncated>>

\* one round of the loop over zipDs.index, for a live entry n that is not in
\* the cache
CloseLoad(n, fault, part) ==
    /\ store = "closing" /\ closing.pc = "load"
    /\ n \in ToLoad(cache, index)
    /\ fault \in {"none", "entryopen", "read"}
    /\ Fault(fault)
    /\ IF fault = "read"
       THEN part \in Prefixes(EntryPayload(fs, index[n]).bytes)
       ELSE part = <<>>
    /\ IF fault = "entryopen"
       THEN \* f.Open() failed: `return err`
            /\ CloseReturn("IOError")
            /\ UNCHANGED cache
       ELSE /\ cache' = IF fault = "read" THEN MapSet(cache, n, Slice(part))
                        ELSE Loaded(cache, index, fs, {n})
            /\ closing' = [closing EXCEPT
                              !.pc = IF ToLoad(cache', index) = {}
                                     THEN "release" ELSE "load"]
            /\ UNCHANGED <<store, ret>>
    /\ UNCHANGED <<fs, index, modified, handle, nsess, nops, pre, puts, readonly,
                   truncated>>

\* err = zipDs.file.Close() and `if err != nil || !zipDs.modified`
CloseRelease(fault) ==
    /\ store = "closing" /\ closing.pc = "release"
    /\ fault \in {"none", "fileclose"}
    /\ Fault(fault)
    /\ handle' = "released"
    /\ LET err == IF fault = "fileclose" THEN "IOError" ELSE "nil" IN
       IF SkipRewrite(err, modified)
       THEN CloseReturn(err)
       ELSE /\ closing' = [closing EXCEPT !.pc = "reopen"]
            /\ UNCHANGED <<store, ret>>
    /\ UNCHANGED <<fs, index, cache, modified, nsess, nops, pre, puts, readonly,
                   truncated>>

\* os.OpenFile(O_TRUNC|O_CREATE|O_WRONLY) and zip.NewWriter
CloseReopen(fault) ==
    /\ store = "closing" /\ closing.pc = "reopen"
    /\ fault \in {"none", "reopen"}
    /\ Fault(fault)
    /\ IF fault = "reopen"
       THEN /\ CloseReturn("IOError")
            /\ UNCHANGED <<fs, handle, truncated>>
       ELSE /\ fs' = EmptyFile
            /\ handle' = "rewrite"
            /\ truncated' = TRUE
            /\ closing' = [closing EXCEPT
                              !.pc = IF DOMAIN Live(cache) = {}
                                     THEN "finalize" ELSE "write"]
            /\ UNCHANGED <<store, ret>>
    /\ UNCHANGED <<index, cache, modified, nsess, nops, pre, puts, readonly>>

\* one round of the loop over zipDs.cache, for an entry n that is not nil:
\* CreateHeader and Write, which fill the buffer of the writer.  A failure
\* returns, which runs the deferred calls.
CloseWrite(n, fault, left) ==
    /\ store = "closing" /\ closing.pc = "write"
    /\ n \in DOMAIN Live(cache) \ closing.written
    /\ fault \in {"none", "write"}
    /\ Fault(fault)
    /\ IF fault = "write"
       THEN left \in {"empty", "junk"} /\ fs' = Unfinished(fs, left)
       ELSE left = "none" /\ UNCHANGED fs
    /\ closing' =
          IF fault = "write"
          THEN [closing EXCEPT !.pc = "finalize", !.err = "IOError"]
          ELSE [closing EXCEPT
                   !.written = closing.written \cup {n},
                   !.pc = IF DOMAIN Live(cache) = closing.written \cup {n}
                          THEN "finalize" ELSE "write"]
    /\ UNCHANGED <<store, index, cache, modified, handle, ret, nsess, nops, pre,
                   puts, readonly, truncated>>

\* a writer.Close() that leaves an archive of the entries written so far,
\* whatever went wrong before
CloseFinalizeAnyway(fault, left) ==
    /\ store = "closing" /\ closing.pc = "finalize"
    /\ fault \in {"none", "finalize"}
    /\ Fault(fault)
    /\ left = "zip"
    /\ fs' = ZipOf([n \in closing.written |-> cache[n]])
    /\ closing' = [closing EXCEPT
                      !.pc = "fileclose",
                      !.finalized = TRUE,
                      !.err = IF closing.err = "nil" /\ fault = "finalize"
                              THEN "IOError" ELSE closing.err]
    /\ UNCHANGED <<store, index, cache, modified, handle, ret, nsess, nops, pre,
                   puts, readonly, truncated>>

\* the deferred writer.Close(): the central directory.  After a failed write
\* the writer keeps failing.
CloseFinalize(fault, left) ==
    /\ store = "closing" /\ closing.pc = "finalize"
    /\ fault \in {"none", "finalize"}
    /\ Fault(fault)
    /\ IF closing.err = "nil" /\ fault = "none"
       THEN /\ left = "zip"
            /\ fs' = ZipOf([n \in closing.written |-> cache[n]])
       ELSE /\ left \in {"empty", "junk"}
            /\ fs' = Unfinished(fs, left)
    /\ closing' = [closing EXCEPT
                      !.pc = "fileclose",
                      !.finalized = TRUE,
                      !.err = IF closing.err = "nil" /\ fault = "finalize"
                              THEN "IOError" ELSE closing.err]
    /\ UNCHANGED <<store, index, cache, modified, handle, ret, nsess, nops, pre,
                   puts, readonly, truncated>>

\* the deferred zipDs.file.Close(), and the return
CloseFileClose(fault, left) ==
    /\ store = "closing" /\ closing.pc = "fileclose"
    /\ fault \in {"none", "fileclose2"}
    /\ Fault(fault)
    /\ handle' = "released"
    /\ IF fault = "fileclose2"
       THEN /\ left \in {"zip", "junk"}
            /\ fs' = IF left = "junk" THEN Unfinished(fs, left) ELSE fs
       ELSE /\ left = "none"
            /\ UNCHANGED fs
    /\ CloseReturn(IF closing.err = "nil" /\ fault = "fileclose2"
                   THEN "IOError" ELSE closing.err)
    /\ UNCHANGED <<index, cache, modified, nsess, nops, pre, puts, readonly,
                   truncated>>

\* the calls that change the store, and Close() statement by statement
StepNext ==
    \/ \E fault \in {"none", "stat", "openfile", "reader"} : NewDatastore(fault)
    \/ \E key \in Keys, value \in PutValues : Put(key, value)
    \/ \E key \in Keys, fault \in {"none", "open", "read"}, part \in AllParts :
          Get(key, fault, part)
    \/ \E key \in Keys : Delete(key)
    \/ CloseEnter
    \/ \E n \in Names, fault \in {"none", "entryopen", "read"}, part \in AllParts :
          CloseLoad(n, fault, part)
    \/ \E fault \in {"none", "fileclose"} : CloseRelease(fault)
    \/ \E fault \in {"none", "reopen"} : CloseReopen(fault)
    \/ \E n \in Names, fault \in {"none", "write"}, left \in {"none", "empty", "junk"} :
          CloseWrite(n, fault, left)
    \/ \E fault \in {"none", "finalize"}, left \in {"zip", "empty", "junk"} :
          CloseFinalize(fault, left)
    \/ \E fault \in {"none", "fileclose2"}, left \in {"none", "zip", "junk"} :
          CloseFileClose(fault, left)

StepSpec == Init /\ [][StepNext]_vars

----------------------------------------------------------------------------
(* What the calls would return in the current state *)

NameOfKey(k) == dsKeyToCidString(k).name
ReadFaults == {"none", "open", "read"}

\* Has(k), GetSize(k) and a Get(k) that meets no library failure
HasNow(k) == HasResult(cache, index, k)
SizeNow(k) == GetSizeResult(cache, index, k)
GetNow(k) == GetResult(cache, index, fs, k, "none", <<>>)

\* what Get(k) would return after the step
GetNext(k) == GetResult(cache', index', fs', k, "none", <<>>)

\* NewDatastore() has just returned a store on the file a Close() that
\* returned nil left behind
CleanReopen ==
    /\ store = "open" /\ ret.op = "open" /\ ret.err = "nil"
    /\ pre.valid /\ pre.err = "nil"

\* Close() has just returned
Closed == store = "closed" /\ ret.op = "close" /\ pre.valid

\* what Get(k) would have returned when Close() was called
GetBefore(k) == GetResult(pre.cache, pre.index, pre.fs, k, "none", <<>>)
HadBefore(n) == has(pre.cache, pre.index, n)

----------------------------------------------------------------------------
(* C1 *)

\* C1: every record put on a store (on a name that did not logically exist)
\* and not deleted afterwards is there after Close() and a fresh
\* NewDatastore(): Has is true, Get returns the same bytes, GetSize their
\* number.
RoundTrip ==
    CleanReopen =>
        \A k \in CidKeys :
            NameOfKey(k) \in DOMAIN pre.puts =>
                /\ HasNow(k).ok
                /\ GetNow(k).err = "nil"
                /\ GetNow(k).value.bytes = pre.puts[NameOfKey(k)].bytes
                /\ SizeNow(k).err = "nil"
                /\ SizeNow(k).n = len(pre.puts[NameOfKey(k)])

\* the same for the records whose payload is not the nil slice
RoundTripNonNil ==
    CleanReopen =>
        \A k \in CidKeys :
            (NameOfKey(k) \in DOMAIN pre.puts /\ ~pre.puts[NameOfKey(k)].nil) =>
                /\ HasNow(k).ok
                /\ GetNow(k).err = "nil"
                /\ GetNow(k).value.bytes = pre.puts[NameOfKey(k)].bytes
                /\ SizeNow(k).err = "nil"
                /\ SizeNow(k).n = len(pre.puts[NameOfKey(k)])

RoundTripNonNilReached ==
    /\ CleanReopen
    /\ \E n \in DOMAIN pre.puts : pre.puts[n] = Slice(<<9>>) /\ n \notin DOMAIN pre.fs.entries

----------------------------------------------------------------------------
(* C2 *)

\* the names Delete() was called on and Put() did not store again
Tombstoned(c, i) == {n \in DOMAIN c : c[n].nil /\ n \in DOMAIN i /\ i[n].nil}

\* C2: on an archive that holds k1, k2 and k3, a store on which k2 is deleted
\* and which is closed leaves, for the next store, Has(k2) false and k1, k3
\* present with their payloads.
DeleteSurvivesRewrite ==
    CleanReopen =>
        \A k2 \in CidKeys :
            ( /\ pre.fs.kind = "zip"
              /\ DOMAIN pre.fs.entries = Names
              /\ Tombstoned(pre.cache, pre.index) = {NameOfKey(k2)}
              /\ pre.puts = EmptyMap ) =>
                /\ ~HasNow(k2).ok
                /\ \A k \in CidKeys \ {k2} :
                      /\ HasNow(k).ok
                      /\ GetNow(k).value.bytes = pre.fs.entries[NameOfKey(k)].bytes

----------------------------------------------------------------------------
(* C3 *)

\* C3: a Delete() that returned nil has marked the store modified.
DeleteMarksModified ==
    (store = "open" /\ ret.op = "delete" /\ ret.err = "nil") => modified

----------------------------------------------------------------------------
(* C4 *)

\* C4: a Close() of a modified store that meets no library failure leaves an
\* archive with exactly the names Has() was true for when Close() was
\* called, each with the payload Get() would have returned.
CloseWritesLogicalSet ==
    (Closed /\ pre.modified /\ ~pre.faulty) =>
        /\ ret.err = "nil"
        /\ fs.kind = "zip"
        /\ DOMAIN fs.entries = {n \in Names : HadBefore(n)}
        /\ \A k \in CidKeys :
              HadBefore(NameOfKey(k)) =>
                  /\ GetBefore(k).err = "nil"
                  /\ fs.entries[NameOfKey(k)].bytes = GetBefore(k).value.bytes

\* a record added, a record of the archive deleted and a record of the
\* archive carried over by the same Close()
CloseWritesLogicalSetReached ==
    /\ Closed /\ pre.modified /\ ~pre.faulty
    /\ \E n \in DOMAIN pre.puts : ~pre.puts[n].nil /\ n \notin DOMAIN pre.fs.entries
    /\ \E n \in Tombstoned(pre.cache, pre.index) : n \in DOMAIN pre.fs.entries
    /\ ToLoad(pre.cache, pre.index) # {}

----------------------------------------------------------------------------
(* C5 *)

\* C5: a Put(k, v2) that follows a Put(k, v1) which stored v1, or that finds
\* k in the archive only, returns nil and leaves Get(k) returning v1.
FirstPutWins ==
    [][ /\ ( /\ ret.op = "put" /\ ret.err = "nil" /\ ret.key \in CidKeys
             /\ NameOfKey(ret.key) \in DOMAIN puts
             /\ puts[NameOfKey(ret.key)] = ret.value
             /\ ret'.op = "put" /\ ret'.key = ret.key /\ ret'.value # ret.value )
           => /\ ret'.err = "nil"
              /\ GetNext(ret.key).err = "nil"
              /\ GetNext(ret.key).value = ret.value
        /\ ( /\ store = "open" /\ ret'.op = "put" /\ ret'.key \in CidKeys
             /\ cacheAt(cache, NameOfKey(ret'.key)).nil
             /\ ~indexAt(index, NameOfKey(ret'.key)).nil )
           => /\ ret'.err = "nil"
              /\ GetNext(ret'.key).err = "nil"
              /\ GetNext(ret'.key).value.bytes = fs.entries[NameOfKey(ret'.key)].bytes
      ]_vars

\* the same for a first value that is not the nil slice
FirstPutWinsNonNil ==
    [][ /\ ( /\ ret.op = "put" /\ ret.err = "nil" /\ ret.key \in CidKeys
             /\ NameOfKey(ret.key) \in DOMAIN puts
             /\ puts[NameOfKey(ret.key)] = ret.value
             /\ ~ret.value.nil
             /\ ret'.op = "put" /\ ret'.key = ret.key /\ ret'.value # ret.value )
           => /\ ret'.err = "nil"
              /\ GetNext(ret.key).err = "nil"
              /\ GetNext(ret.key).value = ret.value
        /\ ( /\ store = "open" /\ ret'.op = "put" /\ ret'.key \in CidKeys
             /\ cacheAt(cache, NameOfKey(ret'.key)).nil
             /\ ~indexAt(index, NameOfKey(ret'.key)).nil )
           => /\ ret'.err = "nil"
              /\ GetNext(ret'.key).err = "nil"
              /\ GetNext(ret'.key).value.bytes = fs.entries[NameOfKey(ret'.key)].bytes
      ]_vars

\* a second Put() with another value after a first one that stored a value
FirstPutWinsNonNilReached ==
    /\ store = "open" /\ ret.op = "put" /\ ret.err = "nil" /\ ret.key \in CidKeys
    /\ NameOfKey(ret.key) \in DOMAIN puts
    /\ ~puts[NameOfKey(ret.key)].nil
    /\ puts[NameOfKey(ret.key)] # ret.value

----------------------------------------------------------------------------
(* C6 *)

\* C6: right after a Delete(k) that returned nil, Has(k) is false and Get(k)
\* and GetSize(k) fail with NotFound, whatever held k before; Delete() of a
\* key of a CID returns nil.
DeleteThenMiss ==
    (store = "open" /\ ret.op = "delete") =>
        /\ ret.key \in CidKeys => ret.err = "nil"
        /\ ret.err = "nil" =>
              /\ HasNow(ret.key) = [err |-> "nil", ok |-> FALSE]
              /\ \A fault \in ReadFaults, part \in AllParts :
                    GetResult(cache, index, fs, ret.key, fault, part).err = "NotFound"
              /\ SizeNow(ret.key).err = "NotFound"

\* a record of the archive has been deleted
DeleteThenMissReached ==
    /\ store = "open" /\ ret.op = "delete" /\ ret.err = "nil"
    /\ fs.kind = "zip" /\ NameOfKey(ret.key) \in DOMAIN fs.entries

----------------------------------------------------------------------------
(* C7 *)

\* C7: the Close() of a store on which neither Put() nor Delete() was called
\* leaves the file as it was and does not truncate it.
UnmodifiedCloseKeepsFile ==
    (Closed /\ pre.readonly) => (fs = pre.fs /\ ~truncated)

\* such a store, on an archive with entries, after a Get() that read one
UnmodifiedCloseReached ==
    /\ Closed /\ pre.readonly /\ ret.err = "nil"
    /\ pre.fs.kind = "zip" /\ DOMAIN pre.fs.entries # {}
    /\ \E n \in DOMAIN pre.cache : ~pre.cache[n].nil

----------------------------------------------------------------------------
(* C8 *)

\* C8: a record with a payload that is not empty, stored by Put() on a name
\* Has() was false for and not deleted since, is served from the cache: Has
\* is true, Get returns the payload without reading an entry, GetSize its
\* length, and the file has not been rewritten.
ReadYourWrites ==
    store = "open" =>
        \A k \in CidKeys :
            (NameOfKey(k) \in DOMAIN puts /\ len(puts[NameOfKey(k)]) > 0) =>
                /\ HasNow(k) = [err |-> "nil", ok |-> TRUE]
                /\ ~ReadsEntry(cache, index, k)
                /\ GetNow(k).err = "nil"
                /\ GetNow(k).value = puts[NameOfKey(k)]
                /\ GetNow(k).cache = cache
                /\ SizeNow(k) = [err |-> "nil", n |-> len(puts[NameOfKey(k)])]
                /\ ~truncated

\* Get() has returned the payload a Put() on this store stored
ReadYourWritesReached ==
    /\ store = "open" /\ ret.op = "get" /\ ret.err = "nil"
    /\ NameOfKey(ret.key) \in DOMAIN puts
    /\ len(puts[NameOfKey(ret.key)]) > 0
    /\ ret.value = puts[NameOfKey(ret.key)]

----------------------------------------------------------------------------
(* C9 *)

\* C9: on an open store GetSize(k) returns nil exactly when a Get(k) that
\* meets no library failure does, and then the length of the payload Get(k)
\* returns; it fails with NotFound exactly when Get(k) does, whether or not
\* the read of the entry fails.
SizeAgreesWithGet ==
    store = "open" =>
        \A k \in Keys :
            /\ (SizeNow(k).err = "nil") <=> (GetNow(k).err = "nil")
            /\ GetNow(k).err = "nil" => SizeNow(k).n = len(GetNow(k).value)
            /\ \A fault \in ReadFaults, part \in AllParts :
                  (SizeNow(k).err = "NotFound")
                      <=> (GetResult(cache, index, fs, k, fault, part).err = "NotFound")

\* GetSize() has answered from the index for an entry that is not cached
SizeAgreesWithGetReached ==
    /\ store = "open" /\ ret.op = "size" /\ ret.err = "nil" /\ ret.n = 2
    /\ cacheAt(cache, NameOfKey(ret.key)).nil

----------------------------------------------------------------------------
(* C10 *)

\* C10: Put, Get, Has, Delete and GetSize with a key that is no CID return
\* the InvalidKey error and leave the cache, the index and the modified flag
\* as they were.
InvalidKeyRejected ==
    [][ (ret'.op \in {"put", "get", "has", "delete", "size"} /\ ret'.key \notin CidKeys)
        => /\ ret'.err = "InvalidKey"
           /\ UNCHANGED <<cache, index, modified>>
      ]_vars

\* Delete() has been refused on a store that holds changes
InvalidKeyRejectedReached ==
    /\ store = "open" /\ ret.op = "delete" /\ ret.key = JunkKey
    /\ ret.err = "InvalidKey"
    /\ modified /\ cache # EmptyMap

----------------------------------------------------------------------------
(* C11 *)

\* the name of k is nil or missing in the cache and nil or missing in the index
Absent(c, i, k) ==
    cacheAt(c, NameOfKey(k)).nil /\ indexAt(i, NameOfKey(k)).nil

\* C11: Get(k) and GetSize(k) of a CID whose name is nil or missing in the
\* cache and in the index return NotFound, an error no failed read returns
\* and that is returned for such names only; they add no entry to the cache
\* or the index and leave the modified flag as it was.
NotFoundIsPure ==
    [][ /\ ( /\ store = "open" /\ ret'.op \in {"get", "size"}
             /\ ret'.key \in CidKeys /\ Absent(cache, index, ret'.key) )
           => /\ ret'.err = "NotFound"
              /\ DOMAIN cache' = DOMAIN cache
              /\ DOMAIN index' = DOMAIN index
              /\ UNCHANGED <<cache, index, modified>>
        /\ ( /\ store = "open" /\ ret'.op \in {"get", "size"}
             /\ ret'.err = "NotFound" )
           => /\ ret'.key \in CidKeys
              /\ Absent(cache, index, ret'.key)
      ]_vars

\* Get() has missed a name of the archive that Delete() was called on, on a
\* store that holds a change
NotFoundIsPureReached ==
    /\ store = "open" /\ ret.op = "get" /\ ret.err = "NotFound"
    /\ NameOfKey(ret.key) \in Tombstoned(cache, index)
    /\ NameOfKey(ret.key) \in DOMAIN fs.entries
    /\ modified

----------------------------------------------------------------------------
(* C12 *)

\* C12: Query() returns the unimplemented error and no results on an open
\* store in any state and on a closed one, and changes neither the store nor
\* the file.
QueryUnimplemented ==
    [][ ret'.op = "query"
        => /\ ret' = Ret("query", NoKey, "Unimplemented", NIL, FALSE, 0)
           /\ UNCHANGED <<cache, index, modified, fs, store, handle>>
      ]_vars

\* Query() has been called on a store that holds a record and a deletion
QueryUnimplementedReached ==
    /\ store = "open" /\ ret.op = "query" /\ ret.err = "Unimplemented"
    /\ modified /\ puts # EmptyMap
    /\ Tombstoned(cache, index) # {}

----------------------------------------------------------------------------
(* C13 *)

\* the keys of the other version over the multihash of k
Twins(k) == {t \in CidKeys : t.hash = k.hash /\ t.version # k.version}

\* what Has, GetSize and a Get that meets no library failure answer for k on
\* the store <<c, i>> over file
Answers(c, i, file, k) ==
    LET g == GetResult(c, i, file, k, "none", <<>>) IN
    [has |-> HasResult(c, i, k),
     get |-> [err |-> g.err, value |-> g.value],
     size |-> GetSizeResult(c, i, k)]

\* C13: the name of a key is in base58btc for a version 0 CID and in base32
\* for any other; the keys of the two versions over one multihash have two
\* names, and a Put, Delete or Get on one of them leaves what Has, Get and
\* GetSize answer for the other as it was.
CrossSchemeNaming ==
    [][ ( /\ store = "open" /\ ret'.op \in {"put", "delete", "get"}
          /\ ret'.key \in CidKeys )
        => /\ ret'.err # "InvalidKey"
           /\ NameOfKey(ret'.key).base
                 = IF ret'.key.version = 0 THEN "base58btc" ELSE "base32"
           /\ \A t \in Twins(ret'.key) :
                 /\ NameOfKey(t) # NameOfKey(ret'.key)
                 /\ Answers(cache', index', fs', t) = Answers(cache, index, fs, t)
      ]_vars

\* the version 0 record of an archive that holds both versions has been
\* deleted, and the version 1 record is still there
CrossSchemeNamingReached ==
    /\ store = "open" /\ ret.op = "delete" /\ ret.err = "nil"
    /\ ret.key.version = 0
    /\ fs.kind = "zip" /\ NameOfKey(ret.key) \in DOMAIN fs.entries
    /\ \E t \in Twins(ret.key) : HasNow(t).ok /\ ~HasNow(ret.key).ok

----------------------------------------------------------------------------
(* C14 *)

\* C14: a NewDatastore() that meets no library failure succeeds on a path
\* where no file is, leaves a file there and returns a store whose index is
\* empty, so that Has() is false for every key; on an archive it returns a
\* store whose index holds exactly the names of the archive's entries, whose
\* cache is empty and whose modified flag is false.
OpenBuildsIndex ==
    [][ /\ (fs.kind = "none" /\ ret'.op = "open" /\ ret'.err # "IOError")
           => /\ ret'.err = "nil" /\ store' = "open"
              /\ fs'.kind # "none"
              /\ index' = EmptyMap /\ cache' = EmptyMap /\ ~modified'
              /\ \A k \in Keys : ~HasResult(cache', index', k).ok
        /\ (fs.kind = "zip" /\ ret'.op = "open" /\ ret'.err # "IOError")
           => /\ ret'.err = "nil" /\ store' = "open"
              /\ fs' = fs
              /\ DOMAIN index' = DOMAIN fs.entries
              /\ \A n \in DOMAIN index' :
                    index'[n] = ZipFile(n, len(fs.entries[n]))
              /\ cache' = EmptyMap /\ ~modified'
      ]_vars

\* a store has been opened on the archive an earlier store has rewritten
OpenBuildsIndexReached ==
    /\ store = "open" /\ ret.op = "open" /\ ret.err = "nil"
    /\ pre.valid /\ pre.modified /\ truncated = FALSE
    /\ fs.kind = "zip" /\ fs # pre.fs
    /\ DOMAIN index # {}

----------------------------------------------------------------------------
(* C15 *)

\* C15: NewDatastore() on a file that is no archive (a file of no bytes
\* included) returns an error and no store, and leaves the bytes of the file
\* as they were.
OpenRejectsNonArchive ==
    [][ (fs.kind \in {"empty", "junk"} /\ ret'.op = "open")
        => /\ ret'.err # "nil"
           /\ store' = "none"
           /\ fs' = fs
      ]_vars

\* the reader has refused a file that a failed rewrite left behind
OpenRejectsNonArchiveReached ==
    /\ store = "none" /\ ret.op = "open" /\ ret.err = "FormatError"
    /\ fs.kind = "junk"
    /\ pre.valid /\ pre.fs.kind = "zip"

----------------------------------------------------------------------------
(* C16 *)

\* C16: a Close() during which a call of the library failed (the open or the
\* read of an entry, the release or the reopening of the file, the writing
\* or the finalizing of the archive) returns an error, and no archive it
\* leaves holds, for an entry it had to read, bytes other than the entry's.
CloseSurfacesFailures ==
    Closed =>
        /\ pre.faulty => ret.err # "nil"
        /\ (truncated /\ fs.kind = "zip") =>
              \A n \in ToLoad(pre.cache, pre.index) :
                  /\ n \in DOMAIN fs.entries
                  /\ fs.entries[n].bytes = pre.fs.entries[n].bytes

----------------------------------------------------------------------------
(* C17 *)

\* C17: on an open store and for every name, has() (the cache entry is not
\* nil or the index entry is not nil) is true exactly when the cache holds a
\* payload for the name, or holds no entry for it while the archive the
\* store was opened on has one; it is false when the cache holds a nil
\* entry, whatever the archive held.
LookupPrecedence ==
    store = "open" =>
        \A n \in Names :
            LET tombstone == n \in DOMAIN cache /\ cache[n].nil
                payload == n \in DOMAIN cache /\ ~cache[n].nil
                archived == fs.kind = "zip" /\ n \in DOMAIN fs.entries
            IN /\ has(cache, index, n) <=> (payload \/ (n \notin DOMAIN cache /\ archived))
               /\ tombstone => ~has(cache, index, n)

\* a store with a nil cache entry over an entry of the archive, a cached
\* payload, and an entry of the archive that is not cached
LookupPrecedenceReached ==
    /\ store = "open" /\ fs.kind = "zip"
    /\ \E n \in DOMAIN cache : cache[n].nil /\ n \in DOMAIN fs.entries
    /\ \E n \in DOMAIN cache : ~cache[n].nil
    /\ \E n \in DOMAIN fs.entries : n \notin DOMAIN cache

----------------------------------------------------------------------------
(* C18 *)

\* C18: the store NewDatastore() returns has the modified flag false, and no
\* call on an open store whose flag is true (Put, Get, Has, GetSize, Delete,
\* Query, Close) makes it false.
ModifiedStaysSet ==
    [][ /\ (ret'.op = "open" /\ store' = "open") => ~modified'
        /\ (store = "open" /\ modified) => modified'
      ]_vars

\* a Delete() on a store that a Put() has marked modified
ModifiedStaysSetReached ==
    /\ store = "open" /\ modified
    /\ ret.op = "delete" /\ ret.err = "nil"
    /\ puts # EmptyMap

----------------------------------------------------------------------------
(* C19 *)

----------------------------------------------------------------------------
(* C20 *)

\* C20: Has() and GetSize() leave the cache, the index, the modified flag
\* and the file as they were, for every key; GetSize() of a name that only
\* the index holds answers with the size the entry records and the cache
\* still has no entry for the name.
HasAndSizeArePure ==
    [][ (store = "open" /\ ret'.op \in {"has", "size"})
        => /\ UNCHANGED <<cache, index, modified, fs>>
           /\ ( /\ ret'.op = "size" /\ ret'.key \in CidKeys
                /\ NameOfKey(ret'.key) \notin DOMAIN cache
                /\ ~indexAt(index, NameOfKey(ret'.key)).nil )
              => /\ ret'.err = "nil"
                 /\ ret'.n = index[NameOfKey(ret'.key)].size
                 /\ NameOfKey(ret'.key) \notin DOMAIN cache'
      ]_vars

\* GetSize() has answered for an entry of the archive that is not in the
\* cache, on a store whose cache holds another record
HasAndSizeArePureReached ==
    /\ store = "open" /\ ret.op = "size" /\ ret.err = "nil" /\ ret.n = 1
    /\ NameOfKey(ret.key) \notin DOMAIN cache
    /\ cache # EmptyMap

----------------------------------------------------------------------------
(* C21 *)

\* C21: a Get(k) that returns nil for a name whose cache entry is nil and
\* whose index entry is live returns the whole payload of the archive entry
\* and stores it in the cache under the name, changing no other cache entry,
\* no index entry, not the modified flag and not the file; a Get(k) answered
\* from the cache changes none of them.
ReadThroughGet ==
    [][ (store = "open" /\ ret'.op = "get" /\ ret'.err = "nil")
        => LET n == NameOfKey(ret'.key) IN
           /\ UNCHANGED <<index, modified, fs>>
           /\ IF cacheAt(cache, n).nil
              THEN /\ ~indexAt(index, n).nil
                   /\ ret'.value = Slice(fs.entries[n].bytes)
                   /\ cache' = MapSet(cache, n, ret'.value)
                   /\ \A m \in DOMAIN cache' \ {n} : m \in DOMAIN cache /\ cache'[m] = cache[m]
              ELSE /\ ret'.value = cache[n]
                   /\ UNCHANGED cache
      ]_vars

\* Get() has read an entry of two bytes into a cache that held another
\* record already
ReadThroughGetReached ==
    /\ store = "open" /\ ret.op = "get" /\ ret.err = "nil"
    /\ len(ret.value) = 2
    /\ NameOfKey(ret.key) \in DOMAIN cache
    /\ NameOfKey(ret.key) \notin DOMAIN puts
    /\ \E m \in DOMAIN cache : m # NameOfKey(ret.key)
    /\ ~modified

----------------------------------------------------------------------------
(* C22 *)

\* the names of the entries of the archive the open store was built on (the
\* file does not change while the store is open)
ArchiveNames == IF fs.kind = "zip" THEN DOMAIN fs.entries ELSE {}

\* C22: on an open store every name the index has a value for, a live entry
\* or nil, is the name of an entry of the archive the store was opened on.
IndexNamesFrozen ==
    store = "open" => DOMAIN index \subseteq ArchiveNames

----------------------------------------------------------------------------
(* C23 *)

\* C23: a step of an open store changes the file only if it is a Close() of
\* a store whose modified flag is set; Put, Delete, Get, Has, GetSize and
\* Query leave the file as it is.
OnlyDirtyCloseWrites ==
    [][ store = "open"
        => /\ ret'.op \in {"put", "delete", "get", "has", "size", "query"}
                 => (fs' = fs /\ ~truncated')
           /\ (fs' # fs \/ truncated') => (ret'.op = "close" /\ modified)
      ]_vars

\* a Close() has left an archive with other names than the one it found
OnlyDirtyCloseWritesReached ==
    /\ Closed /\ pre.modified /\ truncated
    /\ pre.fs.kind = "zip" /\ fs.kind = "zip"
    /\ DOMAIN fs.entries # DOMAIN pre.fs.entries

----------------------------------------------------------------------------
(* C24 *)

\* C24: in a Close() of a modified store, taken statement by statement, the
\* old file handle is released only when every live index entry that was
\* not in the cache has been read into it; the file is truncated only after
\* that release; an entry is handed to the writer only after the truncation;
\* and the new file handle is closed only after writer.Close() has run.
CloseOrder ==
    [][ /\ (handle = "open" /\ handle' = "released" /\ modified)
           => ToLoad(cache, index) = {}
        /\ (~truncated /\ truncated')
           => /\ ToLoad(cache, index) = {}
              /\ handle = "released" /\ handle' = "rewrite"
              /\ fs'.kind = "empty"
        /\ (closing'.written \ closing.written # {})
           => /\ truncated /\ handle = "rewrite"
              /\ ~closing.finalized
        /\ (handle = "rewrite" /\ handle' # "rewrite")
           => /\ closing.finalized
              /\ handle' = "released"
      ]_vars

\* the archive is finalized and the new handle still open, after an entry
\* was read from the old archive and written with a record Put() stored
CloseOrderReached ==
    /\ store = "closing" /\ closing.pc = "fileclose" /\ closing.finalized
    /\ handle = "rewrite" /\ fs.kind = "zip"
    /\ \E n \in closing.written : n \notin DOMAIN puts /\ ~indexAt(index, n).nil
    /\ \E n \in closing.written : n \in DOMAIN puts
    /\ \E n \in DOMAIN cache : cache[n].nil

----------------------------------------------------------------------------
(* C25 *)

\* C25: when Close() has returned, with or without an error, the store
\* holds no open file handle.
CloseReleasesHandle ==
    Closed => handle = "released"

----------------------------------------------------------------------------
(* C26 *)

\* C26: a Close() in which CreateHeader, Write or writer.Close() failed,
\* after the truncation of the file, returns that error and leaves at the
\* path a file that is no archive: neither the archive the store was opened
\* on nor the archive of the records of the store.
RewriteNotAtomic ==
    [][ ( /\ store = "closing" /\ closing.pc = "fileclose"
          /\ closing.err # "nil" /\ store' = "closed" )
        => /\ truncated'
           /\ ret'.op = "close" /\ ret'.err = closing.err
           /\ fs'.kind \in {"empty", "junk"}
           /\ fs' # Rewritten(cache)
      ]_vars

\* a write has failed after another entry was written, in the Close() of a
\* store opened on an archive with entries
RewriteNotAtomicReached ==
    /\ store = "closing" /\ closing.pc = "fileclose"
    /\ closing.err = "IOError" /\ closing.finalized
    /\ closing.written # {}
    /\ fs.kind = "junk"
    /\ \E n \in DOMAIN index : ~index[n].nil

----------------------------------------------------------------------------
(* C27 *)

\* the names that were deleted and then stored again by Put() on the store
\* that Close() has closed
Recreated == {n \in DOMAIN pre.puts : n \in DOMAIN pre.index /\ pre.index[n].nil}

\* C27: a Put(k, v2) that follows a Delete(k) on the same store returns nil
\* and sets the modified flag; Has(k) is then true and Get(k) returns v2,
\* whatever the archive held for k; and after Close() and a new
\* NewDatastore(), Get(k) returns v2.
PutAfterDelete ==
    [][ /\ ( /\ store = "open" /\ ret.op = "delete" /\ ret.err = "nil"
             /\ ret'.op = "put" /\ ret'.key = ret.key )
           => /\ ret'.err = "nil"
              /\ modified'
              /\ HasResult(cache', index', ret.key).ok
              /\ GetNext(ret.key).err = "nil"
              /\ GetNext(ret.key).value.bytes = ret'.value.bytes
        /\ CleanReopen
           => \A k \in CidKeys :
                 NameOfKey(k) \in Recreated
                 => /\ GetNow(k).err = "nil"
                    /\ GetNow(k).value.bytes = pre.puts[NameOfKey(k)].bytes
      ]_vars

\* the same for a payload v2 that is not the nil slice
PutAfterDeleteNonNil ==
    [][ /\ ( /\ store = "open" /\ ret.op = "delete" /\ ret.err = "nil"
             /\ ret'.op = "put" /\ ret'.key = ret.key /\ ~ret'.value.nil )
           => /\ ret'.err = "nil"
              /\ modified'
              /\ HasResult(cache', index', ret.key).ok
              /\ GetNext(ret.key).err = "nil"
              /\ GetNext(ret.key).value.bytes = ret'.value.bytes
        /\ CleanReopen
           => \A k \in CidKeys :
                 (NameOfKey(k) \in Recreated /\ ~pre.puts[NameOfKey(k)].nil)
                 => /\ GetNow(k).err = "nil"
                    /\ GetNow(k).value.bytes = pre.puts[NameOfKey(k)].bytes
      ]_vars

\* a record of the archive, deleted and stored again with another payload,
\* is read by the next store
PutAfterDeleteNonNilReached ==
    /\ CleanReopen /\ ret.err = "nil"
    /\ \E n \in Recreated :
          /\ n \in DOMAIN pre.fs.entries
          /\ pre.puts[n] = Slice(<<9>>)
          /\ fs.entries[n] = Slice(<<9>>)

----------------------------------------------------------------------------
(* C28 *)

\* C28: a Get(k) that returns the error of f.Open() or of ReadAll leaves the
\* cache as it was, so that on an open store every cache entry of a name
\* that Put() did not store is the whole payload of the archive entry.
GetFailureKeepsCache ==
    [][ /\ (store = "open" /\ ret'.op = "get" /\ ret'.err = "IOError")
           => UNCHANGED cache
        /\ store = "open"
           => \A n \in DOMAIN cache :
                 (~cache[n].nil /\ n \notin DOMAIN puts)
                 => cache[n].bytes = fs.entries[n].bytes
      ]_vars

----------------------------------------------------------------------------
(* C29 *)

\* C29: a Close() that returns nil leaves an archive at the path, and a
\* NewDatastore() on that path that meets no library failure returns a
\* store; after a store on a new path that was closed without Put() or
\* Delete(), that store has no record.
CloseLeavesArchive ==
    /\ (Closed /\ ret.err = "nil") => fs.kind = "zip"
    /\ (ret.op = "open" /\ pre.valid /\ pre.err = "nil" /\ ret.err # "IOError")
       => /\ ret.err = "nil" /\ store = "open"
          /\ (pre.readonly /\ pre.fs.kind = "empty")
             => \A k \in Keys : ~HasNow(k).ok

----------------------------------------------------------------------------
(* C30 *)

\* C30: a record that Put() stored with a payload of no bytes, the nil slice
\* or the empty one, on a name Has() was false for, is a record: Has is
\* true, Get returns nil and no bytes, GetSize returns 0, and a Close() of
\* the store that meets no library failure writes an entry for it.
EmptyPutIsRecord ==
    /\ store = "open"
       => \A k \in CidKeys :
             (NameOfKey(k) \in DOMAIN puts /\ len(puts[NameOfKey(k)]) = 0)
             => /\ HasNow(k).ok
                /\ GetNow(k).err = "nil" /\ len(GetNow(k).value) = 0
                /\ SizeNow(k) = [err |-> "nil", n |-> 0]
    /\ (Closed /\ pre.modified /\ ~pre.faulty)
       => \A n \in DOMAIN pre.puts :
             len(pre.puts[n]) = 0
             => fs.kind = "zip" /\ n \in DOMAIN fs.entries /\ len(fs.entries[n]) = 0

\* the same for the empty slice that is not nil
EmptySlicePutIsRecord ==
    /\ store = "open"
       => \A k \in CidKeys :
             (NameOfKey(k) \in DOMAIN puts /\ puts[NameOfKey(k)] = Slice(<<>>))
             => /\ HasNow(k).ok
                /\ GetNow(k).err = "nil" /\ len(GetNow(k).value) = 0
                /\ SizeNow(k) = [err |-> "nil", n |-> 0]
    /\ (Closed /\ pre.modified /\ ~pre.faulty)
       => \A n \in DOMAIN pre.puts :
             pre.puts[n] = Slice(<<>>)
             => fs.kind = "zip" /\ n \in DOMAIN fs.entries /\ len(fs.entries[n]) = 0

\* a Close() has written the empty record Put() stored on a new name
EmptySlicePutIsRecordReached ==
    /\ Closed /\ pre.modified /\ ~pre.faulty
    /\ \E n \in DOMAIN pre.puts :
          /\ pre.puts[n] = Slice(<<>>)
          /\ pre.fs.kind = "zip" /\ n \notin DOMAIN pre.fs.entries
          /\ n \in DOMAIN fs.entries

====
